---- MODULE Spec2Model ----
(***************************************************************************)
(* Model of src/vm.py: the VM controller that drives a virtual machine     *)
(* over one SSH session (paramiko) with xdotool/scrot, and the static      *)
(* helpers that shell out to the local utmctl CLI.                         *)
(*                                                                         *)
(* Texts (stdout, stderr, exception messages, typed text) are sequences    *)
(* of one-character strings, so that strip(), lower(), "in", shlex.quote   *)
(* and the f-string formatting are computed character by character.        *)
(* A remote action is modelled step by step: one step per remote exec      *)
(* (_run), whose reply is the input of the step; the caller is single      *)
(* threaded, so no other call starts while one is in progress.             *)
(***************************************************************************)
EXTENDS Integers, Sequences, FiniteSets, TLC

\* ---------------------------------------------------------------- bounds
\* Number of SSHClient objects one controller creates in a run.
MaxClients == 3
\* Largest value of the `clicks` argument of click().
MaxClicks == 3

\* ----------------------------------------------------------------- texts
\* Characters str.strip() removes (the ones that occur in the sampled texts).
Whitespace == {" ", "\n", "\t"}

RECURSIVE LStrip(_)
LStrip(s) ==
    IF s = <<>> THEN <<>>
    ELSE IF Head(s) \in Whitespace THEN LStrip(Tail(s)) ELSE s

RECURSIVE RStrip(_)
RStrip(s) ==
    IF s = <<>> THEN <<>>
    ELSE IF s[Len(s)] \in Whitespace THEN RStrip(SubSeq(s, 1, Len(s) - 1)) ELSE s

\* str.strip()
Strip(s) == RStrip(LStrip(s))

\* str.lower(), one character
LowerChar(c) ==
    CASE c = "S" -> "s"
      [] c = "T" -> "t"
      [] c = "A" -> "a"
      [] c = "R" -> "r"
      [] c = "E" -> "e"
      [] c = "D" -> "d"
      [] c = "O" -> "o"
      [] c = "P" -> "p"
      [] OTHER -> c

\* str.lower()
Lower(s) == [i \in 1..Len(s) |-> LowerChar(s[i])]

\* sub in s
Contains(s, sub) ==
    \E i \in 0..(Len(s) - Len(sub)) : SubSeq(s, i + 1, i + Len(sub)) = sub

DigitChar(d) == <<"0", "1", "2", "3", "4", "5", "6", "7", "8", "9">>[d + 1]

\* str(n) for a non-negative int, as formatted by an f-string
RECURSIVE Decimal(_)
Decimal(n) ==
    IF n < 10 THEN <<DigitChar(n)>>
    ELSE Decimal(n \div 10) \o <<DigitChar(n % 10)>>

\* Characters shlex.quote leaves unquoted: [a-zA-Z0-9@%+=:,./_-]
SafeChars ==
    {"a", "b", "c", "h", "i", "t", "s", "r", "l", "e", "n", "u", "R", "T",
     "0", "1", "2", "@", "%", "+", "=", ":", ",", ".", "/", "_", "-"}

\* s.replace("'", "'\"'\"'")
RECURSIVE EscapeQuotes(_)
EscapeQuotes(s) ==
    IF s = <<>> THEN <<>>
    ELSE (IF Head(s) = "'" THEN <<"'", "\"", "'", "\"", "'">> ELSE <<Head(s)>>)
         \o EscapeQuotes(Tail(s))

\* shlex.quote(s)
ShlexQuote(s) ==
    IF s = <<>> THEN <<"'", "'">>
    ELSE IF \A i \in 1..Len(s) : s[i] \in SafeChars THEN s
    ELSE <<"'">> \o EscapeQuotes(s) \o <<"'">>

\* The base64 alphabet, value v at position v + 1.
B64Alphabet ==
    <<"A","B","C","D","E","F","G","H","I","J","K","L","M","N","O","P",
      "Q","R","S","T","U","V","W","X","Y","Z","a","b","c","d","e","f",
      "g","h","i","j","k","l","m","n","o","p","q","r","s","t","u","v",
      "w","x","y","z","0","1","2","3","4","5","6","7","8","9","+","/">>

B64Value(c) == (CHOOSE v \in 1..64 : B64Alphabet[v] = c) - 1

\* One 4-character group of base64 text to its 1, 2 or 3 bytes.
B64Group(g) ==
    LET a == B64Value(g[1])
        b == B64Value(g[2])
        c == IF g[3] = "=" THEN 0 ELSE B64Value(g[3])
        d == IF g[4] = "=" THEN 0 ELSE B64Value(g[4])
        n == ((a * 64 + b) * 64 + c) * 64 + d
        b1 == n \div 65536
        b2 == (n \div 256) % 256
        b3 == n % 256
    IN  IF g[3] = "=" THEN <<b1>>
        ELSE IF g[4] = "=" THEN <<b1, b2>>
        ELSE <<b1, b2, b3>>

\* base64.b64decode of well-formed text (whole groups of four).
RECURSIVE B64Decode(_)
B64Decode(s) ==
    IF Len(s) < 4 THEN <<>>
    ELSE B64Group(SubSeq(s, 1, 4)) \o B64Decode(SubSeq(s, 5, Len(s)))

\* ------------------------------------------------------- sampled texts
TextPermissionDenied ==
    <<"p","e","r","m","i","s","s","i","o","n"," ","d","e","n","i","e","d">>
TextNotFound == <<" ","n","o","t"," ","f","o","u","n","d","\n">>
TextNotConnected == <<"N","o","t"," ","c","o","n","n","e","c","t","e","d">>
TextCommandFailed ==
    <<"C","o","m","m","a","n","d"," ","f","a","i","l","e","d"," ","(","e","x","i","t"," ">>
TextFailedIp ==
    <<"F","a","i","l","e","d"," ","t","o"," ","g","e","t"," ","V","M"," ","I","P",":"," ">>
TextStarted == <<"s","t","a","r","t","e","d">>

\* utmctl outputs and typed texts used as inputs
TextIp == <<"1", ".", "2">>
StdoutSamples ==
    { <<>>,
      TextIp,
      <<" ">> \o TextIp \o <<"\n">>,
      <<"\n", "\t">>,
      TextStarted \o <<"\n">>,
      <<"S","t","a","r","t","e","d">>,
      <<"S","T","A","R","T","E","D","\n">>,
      <<"s","t","o","p","p","e","d","\n">> }
StderrSamples == { <<>>, <<"n","o"," ","V","M","\n">> }
TypedSamples == { <<>>, <<"h","i">>, <<"a"," ","b">>, <<"i","t","'","s">> }
KeySamples == { <<"R","e","t","u","r","n">>, <<"c","t","r","l","+","a">>, <<"a",";","b">> }
\* base64 text the remote base64 step prints for the captured file ("hi\n")
PngPayload == <<"a","G","k","K","\n">>

\* ------------------------------------------------------------- state
VARIABLES
    ssh,        \* self.ssh: 0 for None, else the id of the SSHClient object
    clients,    \* the SSHClient objects created so far: state and close() calls
    sinceOk,    \* history: a connect() succeeded since construction / last disconnect()
    pc,         \* position of the caller: "idle", "probe" (_get_display), "act"
    call,       \* the call in progress or last finished
    cand,       \* index in Displays of the candidate _get_display probes next
    disp,       \* the value _get_display returned in this call ("" before)
    left,       \* iterations of click's loop still to run
    issued,     \* remote commands handed to exec_command in this call
    replies,    \* the channel's reply to each of them
    result,     \* how the last call ended
    shell,      \* remote side of the last screenshot exec: steps run, temp file
    proc        \* outcome of the last local utmctl process

vars == <<ssh, clients, sinceOk, pc, call, cand, disp, left, issued, replies,
          result, shell, proc>>

\* _get_display's probe order and its fallback
Displays == <<":0", ":1">>
DefaultDisplay == ":0"

Buttons == {"left", "right", "middle", "other"}
Coords == {10, 20}

NoCall == [op |-> "none", x |-> 0, y |-> 0, button |-> "", clicks |-> 0, text |-> <<>>]
NoResult == [kind |-> "none", at |-> "", msg |-> <<>>, value |-> <<>>, flag |-> FALSE]
NoShell == [ran |-> FALSE, trace |-> <<>>, file |-> FALSE]
NoProc == [type |-> "none", rc |-> 0, stdout |-> <<>>, stderr |-> <<>>]

\* Replies of the remote channel to one exec_command: an exit status with
\* the captured streams, or an exception out of exec_command /
\* recv_exit_status (socket.timeout, SSHException).
ReplyOk == [type |-> "exit", code |-> 0, out |-> <<>>, err |-> <<>>]
ReplyPermissionDenied ==
    [type |-> "exit", code |-> 1, out |-> <<>>, err |-> TextPermissionDenied]
ReplyNotFound == [type |-> "exit", code |-> 127, out |-> <<>>, err |-> TextNotFound]
ReplyRaise == [type |-> "raise", code |-> 0, out |-> <<>>, err |-> <<>>]
Replies == {ReplyOk, ReplyPermissionDenied, ReplyNotFound, ReplyRaise}

\* Outcomes of one local utmctl process: a CompletedProcess, or an exception
\* out of subprocess.run (TimeoutExpired, FileNotFoundError).
ProcResults ==
    [type : {"exit"}, rc : {0, 1}, stdout : StdoutSamples, stderr : StderrSamples]
    \cup {[type |-> "raise", rc |-> 0, stdout |-> <<>>, stderr |-> <<>>]}

Init ==
    /\ ssh = 0
    /\ clients = <<>>
    /\ sinceOk = FALSE
    /\ pc = "idle"
    /\ call = NoCall
    /\ cand = 0
    /\ disp = ""
    /\ left = 0
    /\ issued = <<>>
    /\ replies = <<>>
    /\ result = NoResult
    /\ shell = NoShell
    /\ proc = NoProc

Ok(value) == [kind |-> "ok", at |-> "", msg |-> <<>>, value |-> value, flag |-> FALSE]
Raised(kind, at, msg) ==
    [kind |-> kind, at |-> at, msg |-> msg, value |-> <<>>, flag |-> FALSE]

\* A call that makes no remote exec ends at once with result r.
Finish(op, r) ==
    /\ pc' = "idle"
    /\ call' = [NoCall EXCEPT !.op = op]
    /\ result' = r
    /\ cand' = 0
    /\ disp' = ""
    /\ left' = 0
    /\ issued' = <<>>
    /\ replies' = <<>>
    /\ shell' = NoShell

\* ------------------------------------------------- connect / disconnect
\* connect(): self.ssh is rebound to a new SSHClient before the transport
\* is opened; SSHClient.connect either succeeds or raises.
Connect ==
    /\ pc = "idle"
    /\ Len(clients) < MaxClients
    /\ \E ok \in BOOLEAN :
        /\ clients' = Append(clients,
                [state |-> IF ok THEN "live" ELSE "new", closes |-> 0])
        /\ ssh' = Len(clients) + 1
        /\ sinceOk' = (sinceOk \/ ok)
        /\ Finish("connect",
                  IF ok THEN Ok(<<>>) ELSE Raised("Exception", "connect", <<>>))
    /\ proc' = NoProc

\* Variant: the session is closed but the handle is kept.
DisconnectKeepsHandle ==
    /\ pc = "idle"
    /\ IF ssh # 0
       THEN /\ clients' = [clients EXCEPT ![ssh] =
                    [state |-> "closed", closes |-> @.closes + 1]]
            /\ ssh' = ssh
       ELSE UNCHANGED <<clients, ssh>>
    /\ sinceOk' = FALSE
    /\ Finish("disconnect", Ok(<<>>))
    /\ proc' = NoProc

\* disconnect()
Disconnect ==
    /\ pc = "idle"
    /\ IF ssh # 0
       THEN /\ clients' = [clients EXCEPT ![ssh] =
                    [state |-> "closed", closes |-> @.closes + 1]]
            /\ ssh' = 0
       ELSE UNCHANGED <<clients, ssh>>
    /\ sinceOk' = FALSE
    /\ Finish("disconnect", Ok(<<>>))
    /\ proc' = NoProc

\* ------------------------------------------------------------- _run
\* Timeouts passed to exec_command
ProbeTimeout == 2
RunTimeout == 10
ScreenshotTimeout == 15

Command(kind, d, args, timeout) ==
    [kind |-> kind, disp |-> d, args |-> args, timeout |-> timeout]

\* Variant: the message leaves out the captured stderr.
CommandFailedMsgNoStderr(code, err) ==
    TextCommandFailed \o Decimal(code) \o <<")", ":", " ">>

\* f"Command failed (exit {exit_code}): {err}" with err = stderr.strip()
CommandFailedMsg(code, err) ==
    TextCommandFailed \o Decimal(code) \o <<")", ":", " ">> \o Strip(err)

\* _run(cmd) on the controller's current handle, the channel answering
\* `reply`: what it raises, the stdout it returns, and whether the
\* command reached the remote machine.  A handle whose connect() raised
\* is an SSHClient without a transport: it passes the `if not self.ssh`
\* test and exec_command raises out of paramiko.
Run(reply) ==
    IF ssh = 0
    THEN [raised |-> "VMError", msg |-> TextNotConnected, out |-> <<>>, sent |-> FALSE]
    ELSE IF clients[ssh].state # "live"
    THEN [raised |-> "Exception", msg |-> <<>>, out |-> <<>>, sent |-> FALSE]
    ELSE IF reply.type = "raise"
    THEN [raised |-> "Exception", msg |-> <<>>, out |-> <<>>, sent |-> TRUE]
    ELSE IF reply.code # 0
    THEN [raised |-> "VMError", msg |-> CommandFailedMsg(reply.code, reply.err),
          out |-> <<>>, sent |-> TRUE]
    ELSE [raised |-> "none", msg |-> <<>>, out |-> reply.out, sent |-> TRUE]

\* The exec is recorded when it reached the channel.
Record(r, cmd, reply) ==
    /\ issued' = IF r.sent THEN Append(issued, cmd) ELSE issued
    /\ replies' = IF r.sent THEN Append(replies, reply) ELSE replies

\* A remote action is entered: nothing of the previous call is kept.
Begin(c) ==
    /\ pc = "idle"
    /\ call' = c
    /\ pc' = "probe"
    /\ cand' = 1
    /\ disp' = ""
    /\ left' = c.clicks
    /\ issued' = <<>>
    /\ replies' = <<>>
    /\ result' = NoResult
    /\ shell' = NoShell
    /\ proc' = NoProc
    /\ UNCHANGED <<ssh, clients, sinceOk>>

Screenshot == Begin([NoCall EXCEPT !.op = "screenshot"])

MoveMouse ==
    \E x \in Coords, y \in Coords :
        Begin([NoCall EXCEPT !.op = "move_mouse", !.x = x, !.y = y])

Click ==
    \E b \in Buttons, n \in 0..MaxClicks :
        Begin([NoCall EXCEPT !.op = "click", !.button = b, !.clicks = n])

TypeText ==
    \E t \in TypedSamples : Begin([NoCall EXCEPT !.op = "type_text", !.text = t])

PressKey ==
    \E t \in KeySamples : Begin([NoCall EXCEPT !.op = "press_key", !.text = t])

\* ------------------------------------------------------ _get_display
ProbeCmd(d) == Command("getdisplaygeometry", d, <<>>, ProbeTimeout)

\* What one iteration of _get_display's loop decides, given what the
\* probe of candidate i raised: return the candidate, go on to the next,
\* return the fallback, or let the exception out.
ProbeDecision(i, raised) ==
    IF raised = "none" THEN [do |-> "return", disp |-> Displays[i]]
    ELSE IF raised = "VMError"
    THEN IF i < Len(Displays) THEN [do |-> "continue", disp |-> ""]
         ELSE [do |-> "return", disp |-> DefaultDisplay]
    ELSE [do |-> "raise", disp |-> ""]

GetDisplayProbe ==
    /\ pc = "probe"
    /\ \E reply \in Replies :
        LET cmd == ProbeCmd(Displays[cand])
            r == Run(reply)
            d == ProbeDecision(cand, r.raised)
        IN  /\ Record(r, cmd, reply)
            /\ pc' = CASE d.do = "return" -> "act"
                       [] d.do = "continue" -> "probe"
                       [] OTHER -> "idle"
            /\ cand' = IF d.do = "continue" THEN cand + 1 ELSE 0
            /\ disp' = d.disp
            /\ result' = IF d.do = "raise"
                         THEN Raised(r.raised, "probe", r.msg) ELSE result
    /\ UNCHANGED <<ssh, clients, sinceOk, call, left, shell, proc>>

\* ------------------------------------------- move_mouse, type, key
\* Variant: the codes of the right and the middle button are exchanged.
ButtonCodeSwapped(button) ==
    CASE button = "left" -> "1"
      [] button = "right" -> "2"
      [] button = "middle" -> "3"
      [] OTHER -> "1"

\* {"left": "1", "right": "3", "middle": "2"}.get(button, "1")
ButtonCode(button) ==
    CASE button = "left" -> "1"
      [] button = "right" -> "3"
      [] button = "middle" -> "2"
      [] OTHER -> "1"

ActionCmd(c, d) ==
    CASE c.op = "move_mouse" ->
            Command("mousemove", d, <<Decimal(c.x), Decimal(c.y)>>, RunTimeout)
      [] c.op = "click" -> Command("click", d, <<<<ButtonCode(c.button)>>>>, RunTimeout)
      [] c.op = "type_text" -> Command("type", d, <<ShlexQuote(c.text)>>, RunTimeout)
      [] c.op = "press_key" -> Command("key", d, <<ShlexQuote(c.text)>>, RunTimeout)
      [] OTHER -> Command("screenshot", d, <<>>, ScreenshotTimeout)

\* The single _run of move_mouse, type_text and press_key.
RunAction ==
    /\ pc = "act"
    /\ call.op \in {"move_mouse", "type_text", "press_key"}
    /\ \E reply \in Replies :
        LET cmd == ActionCmd(call, disp)
            r == Run(reply)
        IN  /\ Record(r, cmd, reply)
            /\ result' = IF r.raised = "none" THEN Ok(<<>>)
                         ELSE Raised(r.raised, "action", r.msg)
    /\ pc' = "idle"
    /\ UNCHANGED <<ssh, clients, sinceOk, call, cand, disp, left, shell, proc>>

\* ------------------------------------------------------------- click
\* Variant: a failed click is swallowed and the loop goes on.
ClickAfterIgnoresFailure(raised, remaining) ==
    [pc |-> "act", left |-> remaining - 1]

\* What one iteration of click's loop does after its _run: go on with
\* the remaining iterations, or let the exception out.
ClickAfter(raised, remaining) ==
    IF raised = "none" THEN [pc |-> "act", left |-> remaining - 1]
    ELSE [pc |-> "idle", left |-> remaining]

\* One iteration of `for _ in range(clicks)`.
ClickRun ==
    /\ pc = "act"
    /\ call.op = "click"
    /\ left > 0
    /\ \E reply \in Replies :
        LET cmd == ActionCmd(call, disp)
            r == Run(reply)
            a == ClickAfter(r.raised, left)
        IN  /\ Record(r, cmd, reply)
            /\ pc' = a.pc
            /\ left' = a.left
            /\ result' = IF r.raised = "none" THEN result
                         ELSE Raised(r.raised, "action", r.msg)
    /\ UNCHANGED <<ssh, clients, sinceOk, call, cand, disp, shell, proc>>

\* The loop is exhausted: click returns None.
ClickReturn ==
    /\ pc = "act"
    /\ call.op = "click"
    /\ left <= 0
    /\ pc' = "idle"
    /\ result' = Ok(<<>>)
    /\ UNCHANGED <<ssh, clients, sinceOk, call, cand, disp, left, issued,
                   replies, shell, proc>>

\* -------------------------------------------------------- screenshot
\* The lines of the compound command, in the order of the script.
ScreenshotSteps == <<"rm", "sync", "sleep", "scrot", "base64", "rm">>

\* Variant: the lines are chained with && (or run under set -e), so the
\* script stops at the first line that fails.
ShellStepStopsOnFailure(st, step, ok) ==
    LET good == IF step = "base64" THEN ok /\ st.file ELSE ok
    IN  [trace |-> Append(st.trace, [step |-> step, ok |-> good]),
         file |-> CASE step = "rm" /\ good -> FALSE
                    [] step = "scrot" /\ good -> TRUE
                    [] OTHER -> st.file,
         out |-> IF step = "base64" /\ good THEN st.out \o PngPayload ELSE st.out,
         err |-> IF good THEN st.err ELSE TextPermissionDenied,
         code |-> IF good THEN 0 ELSE 1,
         stop |-> ~good]

\* One line of the script run by the remote shell: `ok` is whether the
\* tool itself works; base64 also needs the file.  The lines are
\* separated by newlines, so each runs whatever the previous one
\* returned, and the script's exit status is that of the line run last.
ShellStep(st, step, ok) ==
    LET good == IF step = "base64" THEN ok /\ st.file ELSE ok
    IN  [trace |-> Append(st.trace, [step |-> step, ok |-> good]),
         file |-> CASE step = "rm" /\ good -> FALSE
                    [] step = "scrot" /\ good -> TRUE
                    [] OTHER -> st.file,
         out |-> IF step = "base64" /\ good THEN st.out \o PngPayload ELSE st.out,
         err |-> IF good THEN st.err ELSE TextPermissionDenied,
         code |-> IF good THEN 0 ELSE 1,
         stop |-> FALSE]

RECURSIVE ShellRun(_, _, _)
ShellRun(st, i, tools) ==
    IF i > Len(ScreenshotSteps) \/ st.stop THEN st
    ELSE ShellRun(ShellStep(st, ScreenshotSteps[i], tools[i]), i + 1, tools)

ShellStart ==
    [trace |-> <<>>, file |-> FALSE, out |-> <<>>, err |-> <<>>, code |-> 0,
     stop |-> FALSE]

\* The _run of screenshot and the decoding of what it returns.
ScreenshotRun ==
    /\ pc = "act"
    /\ call.op = "screenshot"
    /\ \E tools \in [1..Len(ScreenshotSteps) -> BOOLEAN], timeout \in BOOLEAN :
        LET sh == ShellRun(ShellStart, 1, tools)
            reply == IF timeout THEN ReplyRaise
                     ELSE [type |-> "exit", code |-> sh.code, out |-> sh.out,
                           err |-> sh.err]
            cmd == ActionCmd(call, disp)
            r == Run(reply)
        IN  /\ Record(r, cmd, reply)
            /\ shell' = IF r.sent /\ ~timeout
                        THEN [ran |-> TRUE, trace |-> sh.trace, file |-> sh.file]
                        ELSE NoShell
            /\ result' = IF r.raised = "none" THEN Ok(B64Decode(Strip(r.out)))
                         ELSE Raised(r.raised, "action", r.msg)
    /\ pc' = "idle"
    /\ UNCHANGED <<ssh, clients, sinceOk, call, cand, disp, left, proc>>

\* ------------------------------------------------------ local utmctl
\* Variant: stdout is returned as captured, with its trailing newline.
GetIpResultUnstripped(p) ==
    IF p.type = "raise" THEN Raised("Exception", "local", <<>>)
    ELSE IF p.rc # 0 THEN Raised("VMError", "local", TextFailedIp \o p.stderr)
    ELSE Ok(p.stdout)

\* get_ip
GetIpResult(p) ==
    IF p.type = "raise" THEN Raised("Exception", "local", <<>>)
    ELSE IF p.rc # 0 THEN Raised("VMError", "local", TextFailedIp \o p.stderr)
    ELSE Ok(Strip(p.stdout))

\* start: subprocess.run(..., check=True)
StartResult(p) ==
    IF p.type = "raise" THEN Raised("Exception", "local", <<>>)
    ELSE IF p.rc # 0 THEN Raised("CalledProcessError", "local", <<>>)
    ELSE Ok(<<>>)

\* is_running
IsRunningResult(p) ==
    IF p.type = "raise" THEN Raised("Exception", "local", <<>>)
    ELSE [Ok(<<>>) EXCEPT !.flag = Contains(Lower(p.stdout), TextStarted)]

Local(op, p, r) ==
    /\ pc = "idle"
    /\ proc' = p
    /\ Finish(op, r)
    /\ UNCHANGED <<ssh, clients, sinceOk>>

GetIp == \E p \in ProcResults : Local("get_ip", p, GetIpResult(p))

Start == \E p \in ProcResults : Local("start", p, StartResult(p))

IsRunning == \E p \in ProcResults : Local("is_running", p, IsRunningResult(p))

\* ------------------------------------------------------ specification
Next ==
    \/ Connect
    \/ Disconnect
    \/ Screenshot
    \/ MoveMouse
    \/ Click
    \/ TypeText
    \/ PressKey
    \/ GetDisplayProbe
    \/ RunAction
    \/ ClickRun
    \/ ClickReturn
    \/ ScreenshotRun
    \/ GetIp
    \/ Start
    \/ IsRunning

Spec == Init /\ [][Next]_vars

\* ------------------------------------------------------------ claims
RemoteOps == {"screenshot", "move_mouse", "click", "type_text", "press_key"}

Live == ssh # 0 /\ clients[ssh].state = "live"

ExitZero(reply) == reply.type = "exit" /\ reply.code = 0
ExitNonZero(reply) == reply.type = "exit" /\ reply.code # 0

IsProbe(i) == issued[i].kind = "getdisplaygeometry"
ProbeIdx == {i \in 1..Len(issued) : IsProbe(i)}
ClickIdx == {i \in 1..Len(issued) : issued[i].kind = "click"}

\* C1: while no connect() has succeeded since construction or since the
\* last disconnect(), every remote action (click with clicks >= 1) ends
\* with the VMError "Not connected" and hands no command to the channel.
C1_NotConnectedFails ==
    (call.op \in RemoteOps /\ ~sinceOk) =>
        /\ issued = <<>>
        /\ (pc = "idle" /\ (call.op = "click" => call.clicks >= 1)) =>
                (result.kind = "VMError" /\ result.msg = TextNotConnected)

\* C2: on a controller that is connected or has no handle, _get_display
\* probes ":0" then ":1", returns the first candidate whose probe exits
\* zero without probing a later one, returns ":0" when every probe
\* fails, and never lets an exception out, whatever a probe does
\* (non-zero exit, not connected, timeout or transport exception).
C2_GetDisplayNeverRaises ==
    (ssh = 0 \/ Live) =>
        /\ result.at # "probe"
        /\ \A i \in ProbeIdx :
                /\ i <= 2
                /\ issued[i].disp = (IF i = 1 THEN ":0" ELSE ":1")
                /\ i > 1 => ~ExitZero(replies[i - 1])
        /\ (call.op \in RemoteOps /\ pc \in {"act", "idle"}) =>
                \/ \E i \in ProbeIdx : ExitZero(replies[i]) /\ disp = issued[i].disp
                \/ /\ \A i \in ProbeIdx : ~ExitZero(replies[i])
                   /\ disp = ":0"

\* C3: is_running returns true iff the lower-cased stdout of utmctl
\* contains "started", and returns false, raising nothing, when utmctl
\* exits non-zero or the process invocation raises.
C3_IsRunningNeverRaises ==
    (pc = "idle" /\ call.op = "is_running") =>
        /\ result.kind = "ok"
        /\ proc.type = "exit" =>
                (result.flag <=> Contains(Lower(proc.stdout), TextStarted))
        /\ (proc.type = "raise" \/ proc.rc # 0) => ~result.flag

\* C4: on a connected controller, once the display has been detected and
\* with every click command exiting zero, click(button, clicks) returns
\* after exactly `clicks` click commands (none for clicks = 0), one exec
\* each, all carrying the code "1" for left, "3" for right, "2" for
\* middle and "1" for any other button, all on the detected display.
C4_ClickIssuesExactly ==
    (/\ pc = "idle"
     /\ call.op = "click"
     /\ Live
     /\ disp # ""
     /\ \A i \in ClickIdx : ExitZero(replies[i])) =>
        /\ result.kind = "ok"
        /\ Cardinality(ClickIdx) = call.clicks
        /\ Len(issued) = Cardinality(ProbeIdx) + call.clicks
        /\ \A i \in ClickIdx :
            /\ issued[i].disp = disp
            /\ issued[i].args =
                 << << CASE call.button = "left" -> "1"
                         [] call.button = "right" -> "3"
                         [] call.button = "middle" -> "2"
                         [] OTHER -> "1" >> >>
            /\ \A j \in ProbeIdx : j < i

C4_Witness ==
    /\ pc = "idle"
    /\ call.op = "click"
    /\ call.button = "right"
    /\ call.clicks = 2
    /\ Live
    /\ disp = ":1"
    /\ result.kind = "ok"
    /\ Cardinality(ClickIdx) = 2

\* C5: at most one SSH session of the controller is live (opened and not
\* closed) in every state connect() and disconnect() can reach.
C5_AtMostOneLiveSession ==
    Cardinality({i \in 1..Len(clients) : clients[i].state = "live"}) <= 1

\* C6: connected, with the channel answering exit 1 and stderr
\* "permission denied" to every command, move_mouse probes ":0" and ":1",
\* swallows both failures, runs mousemove on ":0" and raises the
\* command-failed VMError of that command, whose message holds the exit
\* code 1 and "permission denied".
C6_MoveMousePermissionDenied ==
    (/\ pc = "idle"
     /\ call.op = "move_mouse"
     /\ Live
     /\ \A i \in 1..Len(replies) : replies[i] = ReplyPermissionDenied) =>
        /\ Len(issued) = 3
        /\ IsProbe(1) /\ issued[1].disp = ":0"
        /\ IsProbe(2) /\ issued[2].disp = ":1"
        /\ issued[3].kind = "mousemove" /\ issued[3].disp = ":0"
        /\ result.kind = "VMError"
        /\ result.at = "action"
        /\ Contains(result.msg, <<"e", "x", "i", "t", " ", "1", ")">>)
        /\ Contains(result.msg, TextPermissionDenied)

C6_Witness ==
    /\ pc = "idle"
    /\ call.op = "move_mouse"
    /\ call.x = 10
    /\ call.y = 20
    /\ Live
    /\ Len(replies) = 3
    /\ \A i \in 1..Len(replies) : replies[i] = ReplyPermissionDenied
    /\ result.kind = "VMError"

\* C7: disconnect() closes the session when the handle is set and leaves
\* the handle unset; with the handle unset it changes nothing and raises
\* nothing, so a second disconnect() is a no-op and no session is ever
\* closed twice.
C7_DisconnectIdempotent ==
    /\ [](\A i \in 1..Len(clients) : clients[i].closes <= 1)
    /\ [][call'.op = "disconnect" =>
            /\ ssh' = 0
            /\ result'.kind = "ok"
            /\ ssh = 0 => clients' = clients
            /\ ssh # 0 =>
                /\ clients'[ssh] = [state |-> "closed", closes |-> clients[ssh].closes + 1]
                /\ \A i \in 1..Len(clients) : i # ssh => clients'[i] = clients[i]
                /\ Len(clients') = Len(clients)]_vars

C7_Witness ==
    /\ pc = "idle"
    /\ call.op = "disconnect"
    /\ ssh = 0
    /\ \E i \in 1..Len(clients) : clients[i].state = "closed" /\ clients[i].closes = 1

\* C8: get_ip returns utmctl's stdout without its surrounding whitespace
\* when the process exits zero, and raises a VMError whose message holds
\* the stderr text when it exits non-zero, whatever stdout holds.
C8_GetIpTrimsOrRaises ==
    (pc = "idle" /\ call.op = "get_ip" /\ proc.type = "exit") =>
        /\ proc.rc = 0 =>
            /\ result.kind = "ok"
            /\ result.value = <<>> \/
                 (result.value[1] \notin Whitespace
                    /\ result.value[Len(result.value)] \notin Whitespace)
            /\ \E i \in 1..(Len(proc.stdout) + 1), j \in 0..Len(proc.stdout) :
                /\ SubSeq(proc.stdout, i, j) = result.value
                /\ \A k \in 1..Len(proc.stdout) :
                        (k < i \/ k > j) => proc.stdout[k] \in Whitespace
        /\ proc.rc # 0 =>
            /\ result.kind = "VMError"
            /\ Contains(result.msg, proc.stderr)

C8_Witness ==
    /\ pc = "idle"
    /\ call.op = "get_ip"
    /\ proc.type = "exit"
    /\ proc.rc = 0
    /\ proc.stdout = <<" ", "1", ".", "2", "\n">>
    /\ result.value = <<"1", ".", "2">>

C10_FailureStopsCall ==
    /\ [](call.op \in RemoteOps =>
            /\ \A i \in 1..Len(issued) :
                    (~IsProbe(i) /\ ~ExitZero(replies[i])) => i = Len(issued)
            /\ Cardinality(ClickIdx) <= call.clicks
            /\ (/\ pc = "idle"
                /\ issued # <<>>
                /\ ~IsProbe(Len(issued))
                /\ ExitNonZero(replies[Len(issued)])) =>
                    /\ result.kind = "VMError"
                    /\ result.at = "action"
                    /\ Contains(result.msg, Decimal(replies[Len(issued)].code)))
    /\ [][call'.op \in RemoteOps => (ssh' = ssh /\ clients' = clients)]_vars

C10_Witness ==
    /\ pc = "idle"
    /\ call.op = "click"
    /\ call.clicks = 3
    /\ Live
    /\ Cardinality(ClickIdx) = 2
    /\ \E i \in ClickIdx, j \in ClickIdx :
            i < j /\ ExitZero(replies[i]) /\ replies[j] = ReplyNotFound
    /\ result.kind = "VMError"
====
